---- MODULE Spec2Model ----
(***************************************************************************)
(* Model of scripts/generateMetrics.ts: a one-shot job that validates its  *)
(* environment, makes sure README.md exists (restoring it from git or      *)
(* writing a placeholder), queries the GitHub GraphQL API for the commits  *)
(* of the last 7 days, buckets them by JST hour and weekday, fetches the   *)
(* WakaTime statistics, renders a text block and replaces the region       *)
(* between the waka markers of README.md with it.                          *)
(*                                                                         *)
(* Text is modelled as a sequence of tokens.  The two markers are one      *)
(* token each (neither marker overlaps itself or the other, so the         *)
(* occurrences of the markers in a text are unambiguous); "\n" is a token; *)
(* "$", "&", the grave accent and "'" are the characters that               *)
(* String.prototype.replace gives a meaning to inside a replacement        *)
(* string; every other token is ordinary text.                             *)
(***************************************************************************)
EXTENDS Integers, Sequences, FiniteSets, TLC

VARIABLES
    pc,            \* position of the process
    exitCode,      \* exit status once pc = "exit" (-1 while running)
    report,        \* last line written to the console
    env,           \* process.env: the credential variables
    cfg,           \* the module-level constants GH_TOKEN, WAKATIME_API_KEY, GH_USERNAME
    now,           \* main: const now
    fileExists,    \* README.md exists in the working directory
    readme,        \* content of README.md (<<>> while it does not exist)
    exists0,       \* README.md existed when the process started
    readme0,       \* content of README.md when the process started
    ref,           \* ensureReadmeExists: const ref inside branchFromEnv
    branchFromEnv, \* ensureReadmeExists: const branchFromEnv
    pending,       \* ensureReadmeExists: remote refs still to be tried, in order
    io,            \* every file, git and network operation issued so far, in order
    todo,          \* main: contribution nodes of the response not yet visited
    seen,          \* main: contribution nodes visited by the loop
    node,          \* main: locals of the last loop iteration
    hourBuckets,   \* main: hourBuckets
    weekdayCounts, \* main: weekdayCounts
    totalCommits,  \* main: totalCommits
    mostDay,       \* main: mostDay
    finalBlock,    \* main: finalBlock
    md,            \* main: md, the text read from README.md
    runs,          \* how many times the job has been started
    prev           \* content of README.md when the previous run of the job ended

vars == <<pc, exitCode, report, env, cfg, now, fileExists, readme, exists0, readme0,
          ref, branchFromEnv, pending, io, todo, seen, node, hourBuckets,
          weekdayCounts, totalCommits, mostDay, finalBlock, md, runs, prev>>

----------------------------------------------------------------------------
(* Bounds of the model *)

MaxDoc == 4      \* longest README.md, in tokens, the document claims start from
MaxNodes == 1    \* most contribution nodes in one GraphQL response
MaxRuns == 2     \* most consecutive runs of the job

(* Constants of the program *)

HoursPerDay == 24
DaysPerWeek == 7
JSTOffsetHours == 9
EpochWeekday == 4          \* 1970-01-01 was a Thursday: getUTCDay() = 4
BarWidth == 24
NameWidth == 24
TopN == 5
SecondsPerMinute == 60
MinutesPerHour == 60

----------------------------------------------------------------------------
(* JavaScript values *)

Undefined == "<undefined>"

\* Falsy with a fault: the empty string counts as a value
FalsyOnlyUndefined(v) == v = Undefined

\* !v for a string-or-undefined value
Falsy(v) == v = Undefined \/ v = ""

\* a || b
Or(a, b) == IF Falsy(a) THEN b ELSE a

Min(S) == CHOOSE m \in S : \A n \in S : m <= n
Max(S) == CHOOSE m \in S : \A n \in S : m >= n

\* Math.round(n / d) for d > 0: floor(n/d + 1/2)
Round(n, d) == (2 * n + d) \div (2 * d)

RECURSIVE SeqsUpTo(_, _)
SeqsUpTo(A, n) ==
    IF n = 0 THEN {<<>>}
    ELSE LET shorter == SeqsUpTo(A, n - 1)
         IN  shorter \cup {Append(s, a) : s \in {t \in shorter : Len(t) = n - 1}, a \in A}

RECURSIVE Concat(_, _, _)
\* the concatenation of the sequences ss[lo], ..., ss[hi]
Concat(ss, lo, hi) ==
    IF lo > hi THEN <<>>
    ELSE IF lo = hi THEN ss[lo]
    ELSE LET mid == (lo + hi) \div 2
         IN  Concat(ss, lo, mid) \o Concat(ss, mid + 1, hi)

\* out.join('\n') for a sequence of lines, each a sequence of tokens
Join(lines) ==
    Concat([i \in 1..Len(lines) |-> IF i = 1 THEN lines[i] ELSE <<"\n">> \o lines[i]],
           1, Len(lines))

----------------------------------------------------------------------------
(* The document *)

START == "<!--START_SECTION:waka-->"
END == "<!--END_SECTION:waka-->"

\* the grave accent character, and three of them
GRAVE == "<grave accent>"
FENCE == "<code fence>"

\* Number of characters a token stands for
Width(tok) == IF tok = START THEN 25 ELSE IF tok = END THEN 23 ELSE 1

\* the placeholder README.md of ensureReadmeExists
Placeholder ==
    <<"# Hello", "\n", "\n", "<!-- METRICS:START -->", "\n",
      "<p><em>Loading metrics...</em></p>", "\n", "<!-- METRICS:END -->", "\n", "\n",
      START, "\n", "<p><em>Loading WakaTime...</em></p>", "\n", END, "\n">>

\* the document has a start marker followed, later, by an end marker
HasRegion(text) ==
    \E i, j \in 1..Len(text) : i < j /\ text[i] = START /\ text[j] = END

\* /<!--START_SECTION:waka-->[\s\S]*?<!--END_SECTION:waka-->/ without the g flag:
\* the match starts at the leftmost start marker that has an end marker after it
\* (0: no match) ...
MatchStart(text) ==
    LET c == {i \in 1..Len(text) :
                 text[i] = START /\ \E j \in (i + 1)..Len(text) : text[j] = END}
    IN  IF c = {} THEN 0 ELSE Min(c)

\* ... and, [\s\S]*? being lazy, ends at the nearest end marker after it
MatchEnd(text) ==
    Min({j \in (MatchStart(text) + 1)..Len(text) : text[j] = END})

ReplacementChars == {"$", "&", GRAVE, "'"}

RECURSIVE SecondOfPattern(_, _)
\* Scanning the replacement from the left, character i is the second character of
\* a replacement pattern
SecondOfPattern(replacement, i) ==
    /\ i >= 2
    /\ replacement[i - 1] = "$"
    /\ replacement[i] \in ReplacementChars
    /\ ~SecondOfPattern(replacement, i - 1)

\* String.prototype.replace with a string as replacement expands the replacement
\* patterns of the string: $$ is a dollar sign, $& the matched text, $ and a grave
\* accent the text before the match, $' the text after it.  The regular expression
\* has no capture group, so $1..$99 and $<name> stay as they are, like a $ before
\* anything else.
GetSubstitution(matched, before, after, replacement) ==
    LET piece(i) ==
            IF SecondOfPattern(replacement, i) THEN <<>>
            ELSE IF replacement[i] = "$" /\ i < Len(replacement)
                      /\ replacement[i + 1] \in ReplacementChars
                 THEN CASE replacement[i + 1] = "$" -> <<"$">>
                        [] replacement[i + 1] = "&" -> matched
                        [] replacement[i + 1] = GRAVE -> before
                        [] replacement[i + 1] = "'" -> after
                 ELSE <<replacement[i]>>
    IN  Concat([i \in 1..Len(replacement) |-> piece(i)], 1, Len(replacement))

\* Replace with a fault: the replacement is appended when the document has no region
ReplaceAppendsWhenMissing(text, replacement) ==
    IF MatchStart(text) = 0 THEN text \o replacement
    ELSE LET i == MatchStart(text)
             j == MatchEnd(text)
             before == SubSeq(text, 1, i - 1)
             after == SubSeq(text, j + 1, Len(text))
         IN  before \o GetSubstitution(SubSeq(text, i, j), before, after, replacement) \o after

\* md.replace(/<!--START_SECTION:waka-->[\s\S]*?<!--END_SECTION:waka-->/, replacement)
Replace(text, replacement) ==
    IF MatchStart(text) = 0 THEN text
    ELSE LET i == MatchStart(text)
             j == MatchEnd(text)
             before == SubSeq(text, 1, i - 1)
             after == SubSeq(text, j + 1, Len(text))
         IN  before \o GetSubstitution(SubSeq(text, i, j), before, after, replacement) \o after

\* NeedsWrite with a fault: README.md is rewritten on every run
AlwaysWrites(replaced, text) == TRUE

\* if (replaced !== md)
NeedsWrite(replaced, text) == replaced # text

----------------------------------------------------------------------------
(* Helpers *)

RECURSIVE Truncate(_, _)
\* the longest prefix of s that fits n characters; a token cut in the middle leaves
\* ordinary text
Truncate(s, n) ==
    IF Len(s) = 0 \/ n <= 0 THEN <<>>
    ELSE IF Width(s[1]) <= n THEN <<s[1]>> \o Truncate(Tail(s), n - Width(s[1]))
    ELSE <<"...">>

RECURSIVE TextWidth(_)
TextWidth(s) == IF Len(s) = 0 THEN 0 ELSE Width(s[1]) + TextWidth(Tail(s))

\* padRight: (s + ' '.repeat(Math.max(0, n - s.length))).slice(0, n)
padRight(s, n) ==
    IF TextWidth(s) < n THEN Truncate(s, n) \o <<" ">> ELSE Truncate(s, n)

\* makeBar: the number of filled and of empty glyphs.  A negative filled makes
\* String.prototype.repeat throw a RangeError.
makeBar(value, maxValue, width) ==
    IF maxValue = 0 THEN [filled |-> 0, empty |-> width]
    ELSE LET filled == Round(value * width, maxValue)
         IN  [filled |-> filled, empty |-> Max({0, width - filled})]

BarThrows(value, maxValue, width) == makeBar(value, maxValue, width).filled < 0

BarText(value, maxValue, width) ==
    LET b == makeBar(value, maxValue, width)
    IN  <<ToString(b.filled), "#", ToString(b.empty), ".">>

\* formatTimeMinutes, for a whole number of minutes
formatTimeMinutes(mins) ==
    LET h == mins \div MinutesPerHour
        m == mins % MinutesPerHour
    IN  IF h > 0 THEN <<ToString(h), " hrs ", ToString(m), " mins">>
        ELSE <<ToString(m), " mins">>

WeekdayNames ==
    <<"Sunday", "Monday", "Tuesday", "Wednesday", "Thursday", "Friday", "Saturday">>

\* weekdayName(i), i = 0 for Sunday
weekdayName(i) == WeekdayNames[i + 1]

\* Times are whole hours since 1970-01-01T00:00Z.
toJST(t) == t + JSTOffsetHours
getUTCHours(t) == t % HoursPerDay
getUTCDay(t) == (EpochWeekday + (t \div HoursPerDay)) % DaysPerWeek

\* Ok with a fault: server errors count as success
OkUpTo5xx(status) == status >= 200 /\ status <= 599

\* res.ok of the fetch API
Ok(status) == status >= 200 /\ status <= 299

----------------------------------------------------------------------------
(* The environment of the process *)

\* Values of the credential variables of process.env
EnvSet ==
    [GH_TOKEN : {Undefined, "", "ghp_token"},
     WAKATIME_API_KEY : {Undefined, "", "waka_key"},
     GH_USERNAME : {Undefined, "", "alice"},
     GITHUB_ACTOR : {Undefined, "", "actor"},
     USER : {Undefined, "", "user"}]

GoodEnv ==
    [GH_TOKEN |-> "ghp_token", WAKATIME_API_KEY |-> "waka_key",
     GH_USERNAME |-> "alice", GITHUB_ACTOR |-> Undefined, USER |-> "user"]

NoCfg == [GH_TOKEN |-> Undefined, WAKATIME_API_KEY |-> Undefined, GH_USERNAME |-> Undefined]

\* Values of GITHUB_REF, GITHUB_BASE_REF and GITHUB_HEAD_REF, as String(ref).split('/')
\* sees them: <<>> is an unset variable, <<"">> the empty string.
NoRef == <<>>
RefValues ==
    {NoRef, <<"">>, <<"refs", "heads", "dev">>, <<"refs", "heads", "">>, <<"main">>}
RunRefValues == {NoRef, <<"refs", "heads", "dev">>}

RefFalsy(r) == r = NoRef \/ r = <<"">>
RefOr(a, b) == IF RefFalsy(a) THEN b ELSE a

Nows == {"Wed, 04 Nov 2026 00:00:00 GMT"}

Statuses == {200, 401, 500}

\* What git show <ref>:README.md can do: fail, or print a (possibly empty) file
RestoreDocs == {<<"x">>, <<START, "old", END>>}
GitOutcomes ==
    {[ok |-> FALSE, stdout |-> <<>>]}
        \cup {[ok |-> TRUE, stdout |-> d] : d \in RestoreDocs \cup {<<>>}}
RunGitOutcomes ==
    {[ok |-> FALSE, stdout |-> <<>>], [ok |-> TRUE, stdout |-> <<START, "old", END>>]}

\* README.md at the start of a whole run, when it exists
RunDocs ==
    {<<"x">>, <<START, "old", END>>, <<"x", START, "old", END, "y">>, <<END, START>>}

\* README.md at the start of the runs the document claims are checked on
Docs == SeqsUpTo({START, END, "x"}, MaxDoc)

\* Contribution nodes: occurredAt in whole hours, commitCount optional
\* Every hour of the first day, and noon of the six days after it
Times ==
    0..(HoursPerDay - 1) \cup {d * HoursPerDay + 12 : d \in 1..(DaysPerWeek - 1)}
CommitCounts == {-1, 0, 2}
AllNodes ==
    {[occurredAt |-> t, hasCount |-> FALSE, commitCount |-> 0] : t \in Times}
        \cup [occurredAt : Times, hasCount : {TRUE}, commitCount : CommitCounts]
RunNodes ==
    {[occurredAt |-> 0, hasCount |-> FALSE, commitCount |-> 0],
     [occurredAt |-> 30, hasCount |-> TRUE, commitCount |-> 2]}

\* WakaTime responses: data.languages and data.editors
Names ==
    {<<"TypeScript">>, <<"$">>, <<"$", "&">>, <<"$", "$">>, <<"$", GRAVE>>, <<"$", "'">>,
     <<"C", "$", "&", "x">>, <<END>>}
NoUsage == [languages |-> <<>>, editors |-> <<>>]
RunWaka ==
    {NoUsage,
     [languages |-> <<[name |-> <<"TypeScript">>, seconds |-> 5400]>>,
      editors |-> <<[name |-> <<"VS Code">>, seconds |-> 5430]>>]}
AllWaka ==
    {NoUsage}
        \cup {[languages |-> <<[name |-> n, seconds |-> 5400]>>,
               editors |-> <<[name |-> <<"VS Code">>, seconds |-> 5430]>>] : n \in Names}

----------------------------------------------------------------------------
(* The log of operations *)

Op(op, arg, ok, status, text) ==
    [op |-> op, arg |-> arg, ok |-> ok, status |-> status, text |-> text]

AccessOp(ok) == Op("access", <<"README.md">>, ok, 0, <<>>)
GitOp(r, out) == Op("git", r, out.ok, 0, out.stdout)
WriteOp(kind, ok, text) == Op("write", <<kind>>, ok, 0, text)
FetchOp(api, status) == Op("fetch", <<api>>, Ok(status), status, <<>>)
ReadOp(text) == Op("read", <<"README.md">>, TRUE, 0, text)

OpsOf(kind) == SelectSeq(io, LAMBDA e : e.op = kind)

----------------------------------------------------------------------------
(* Aggregation *)

BucketNames == {"Morning", "Daytime", "Evening", "Night"}
wkOrder == <<"Monday", "Tuesday", "Wednesday", "Thursday", "Friday", "Saturday", "Sunday">>
WeekdaySet == {wkOrder[i] : i \in 1..Len(wkOrder)}

NoNode == [hour |-> -1, dayIndex |-> -1, cnt |-> 0, bucket |-> "", hasCount |-> FALSE, commitCount |-> 0]

\* Bucket with a fault: noon counts as morning
BucketNoonIsMorning(hour) ==
    IF hour >= 6 /\ hour <= 12 THEN "Morning"
    ELSE IF hour >= 12 /\ hour < 18 THEN "Daytime"
    ELSE IF hour >= 18 /\ hour < 24 THEN "Evening"
    ELSE "Night"

\* let bucket = 'Night'; if ... else if ... else if ...
Bucket(hour) ==
    IF hour >= 6 /\ hour < 12 THEN "Morning"
    ELSE IF hour >= 12 /\ hour < 18 THEN "Daytime"
    ELSE IF hour >= 18 /\ hour < 24 THEN "Evening"
    ELSE "Night"

\* node.commitCount || 1
CountOf(n) == IF ~n.hasCount \/ n.commitCount = 0 THEN 1 ELSE n.commitCount

RECURSIVE MostDayFrom(_, _, _, _)
MostDayFrom(counts, order, best, day) ==
    IF Len(order) = 0 THEN day
    ELSE IF counts[Head(order)] > best
         THEN MostDayFrom(counts, Tail(order), counts[Head(order)], Head(order))
         ELSE MostDayFrom(counts, Tail(order), best, day)

\* let mostDay = 'N/A'; let best = -1; for (const k of wkOrder) ...
MostProductiveDay(counts) == MostDayFrom(counts, wkOrder, -1, "N/A")

maxHour == Max({hourBuckets[b] : b \in BucketNames} \cup {1})
wkMax == Max({weekdayCounts[d] : d \in WeekdaySet} \cup {1})

\* building hourLines or wkLines throws (String.prototype.repeat, RangeError)
LinesThrow ==
    \/ \E b \in BucketNames : BarThrows(hourBuckets[b], maxHour, BarWidth)
    \/ \E d \in WeekdaySet : BarThrows(weekdayCounts[d], wkMax, BarWidth)

----------------------------------------------------------------------------
(* Rendering *)

\* pct.toFixed(2), in hundredths of a percent; counts are not negative here
PctText(value, total) ==
    IF total = 0 THEN "0" ELSE ToString(Round(value * 10000, total))

hourEntries ==
    <<[label |-> "Morning", key |-> "Morning"], [label |-> "Daytime", key |-> "Daytime"],
      [label |-> "Evening", key |-> "Evening"], [label |-> "Night", key |-> "Night"]>>

hourLines ==
    [i \in 1..Len(hourEntries) |->
        LET cnt == hourBuckets[hourEntries[i].key]
        IN  <<hourEntries[i].label, " ">>
                \o padRight(<<ToString(cnt), " commits">>, 18) \o <<" ">>
                \o BarText(cnt, maxHour, BarWidth)
                \o <<"   ", PctText(cnt, totalCommits), " % ">>]

wkLines ==
    [i \in 1..Len(wkOrder) |->
        LET cnt == weekdayCounts[wkOrder[i]]
        IN  padRight(<<wkOrder[i]>>, NameWidth) \o <<" ">>
                \o padRight(<<ToString(cnt), " commits">>, 8) \o <<" ">>
                \o BarText(cnt, wkMax, BarWidth)
                \o <<"   ", PctText(cnt, totalCommits), " % ">>]

\* (waka.data?.X || []).slice(0, 5)
TopEntries(entries) == SubSeq(entries, 1, Min({TopN, Len(entries)}))

RECURSIVE SumSeconds(_)
SumSeconds(entries) ==
    IF Len(entries) = 0 THEN 0 ELSE entries[1].seconds + SumSeconds(Tail(entries))

\* langLines and editorLines
UsageLines(entries) ==
    LET total == SumSeconds(entries)
        most == Max({entries[i].seconds : i \in 1..Len(entries)} \cup {1})
    IN  [i \in 1..Len(entries) |->
            padRight(entries[i].name, NameWidth) \o <<" ">>
                \o padRight(formatTimeMinutes(Round(entries[i].seconds, SecondsPerMinute)), 18)
                \o <<" ">> \o BarText(entries[i].seconds, most, BarWidth)
                \o <<"   ", PctText(entries[i].seconds, total), " % ">>]

\* morningPct > daytimePct
IsEarly ==
    IF totalCommits > 0 THEN hourBuckets["Morning"] > hourBuckets["Daytime"]
    ELSE IF totalCommits < 0 THEN hourBuckets["Morning"] < hourBuckets["Daytime"]
    ELSE FALSE

\* out.join('\n')
RenderBlock(waka) ==
    Join(<<<<"**", IF IsEarly THEN "I'm an Early" ELSE "I'm Productive", "**">>,
           <<>>, <<FENCE, "text">>>>
         \o hourLines
         \o <<<<FENCE>>, <<"**I'm Most Productive on ", mostDay, "**">>, <<>>, <<FENCE, "text">>>>
         \o wkLines
         \o <<<<FENCE>>, <<>>, <<"**This Week I Spent My Time On**">>, <<>>, <<FENCE, "text">>,
              <<"Programming Languages: ">>>>
         \o UsageLines(TopEntries(waka.languages))
         \o <<<<>>, <<"Editors: ">>>>
         \o UsageLines(TopEntries(waka.editors))
         \o <<<<FENCE>>, <<>>, <<" Last Updated on ", now>>>>)

----------------------------------------------------------------------------
(* The process *)

ZeroHours == [b \in BucketNames |-> 0]
ZeroDays == [d \in WeekdaySet |-> 0]

\* The state a process starts in, given its environment and its working directory
Boot(e, exists, text) ==
    /\ pc = "boot"
    /\ exitCode = -1
    /\ report = ""
    /\ env = e
    /\ cfg = NoCfg
    /\ now = ""
    /\ fileExists = exists
    /\ readme = text
    /\ exists0 = exists
    /\ readme0 = text
    /\ ref = NoRef
    /\ branchFromEnv = Undefined
    /\ pending = <<>>
    /\ io = <<>>
    /\ todo = 0
    /\ seen = 0
    /\ node = NoNode
    /\ hourBuckets = ZeroHours
    /\ weekdayCounts = ZeroDays
    /\ totalCommits = 0
    /\ mostDay = Undefined
    /\ finalBlock = <<>>
    /\ md = <<>>
    /\ runs = 1
    /\ prev = text

Init ==
    \E e \in EnvSet :
        \/ Boot(e, FALSE, <<>>)
        \/ \E d \in RunDocs : Boot(e, TRUE, d)

\* console.error(message); process.exit(1)
Exit1(message) ==
    /\ pc' = "exit"
    /\ exitCode' = 1
    /\ report' = message

\* a rejected await: main().catch(e => { console.error('FATAL:', e); process.exit(1) })
Fatal == Exit1("FATAL:")

\* Module level: the constants read from process.env, the three checks, then main()
\* up to its first await, fs.access in ensureReadmeExists
CheckEnv ==
    /\ pc = "boot"
    /\ LET c == [GH_TOKEN |-> env.GH_TOKEN,
                 WAKATIME_API_KEY |-> env.WAKATIME_API_KEY,
                 GH_USERNAME |-> Or(Or(Or(env.GH_USERNAME, env.GITHUB_ACTOR), env.USER), "")]
       IN  /\ cfg' = c
           /\ IF Falsy(c.GH_TOKEN) THEN Exit1("Missing GH_TOKEN env") /\ now' = now
              ELSE IF Falsy(c.WAKATIME_API_KEY)
                   THEN Exit1("Missing WAKATIME_API_KEY env") /\ now' = now
              ELSE IF Falsy(c.GH_USERNAME)
                   THEN Exit1("Missing GH_USERNAME env") /\ now' = now
              ELSE /\ pc' = "access"
                   /\ now' \in Nows
                   /\ UNCHANGED <<exitCode, report>>
    /\ UNCHANGED <<env, fileExists, readme, exists0, readme0, ref, branchFromEnv, pending,
                   io, todo, seen, node, hourBuckets, weekdayCounts, totalCommits,
                   mostDay, finalBlock, md, runs, prev>>

\* ensureReadmeExists: try { await fs.access(readmePath); return } catch { }
Access ==
    /\ pc = "access"
    /\ io' = Append(io, AccessOp(fileExists))
    /\ pc' = IF fileExists THEN "query" ELSE "tryHead"
    /\ UNCHANGED <<exitCode, report, env, cfg, now, fileExists, readme, exists0, readme0,
                   ref, branchFromEnv, pending, todo, seen, node, hourBuckets,
                   weekdayCounts, totalCommits, mostDay, finalBlock, md, runs, prev>>

\* tryGitRestore(r): git show r:README.md, and a write of what it printed when that
\* is not empty.  An error of either is caught and makes the result false.
\* restored, failed: where the caller goes on after true and after false.
tryGitRestore(r, restored, failed, outcomes) ==
    \E out \in outcomes, written \in BOOLEAN :
        IF out.ok /\ Len(out.stdout) > 0
        THEN /\ io' = io \o <<GitOp(r, out), WriteOp("restore", written, out.stdout)>>
             /\ IF written
                THEN fileExists' = TRUE /\ readme' = out.stdout /\ pc' = restored
                ELSE UNCHANGED <<fileExists, readme>> /\ pc' = failed
        ELSE /\ written
             /\ io' = Append(io, GitOp(r, out))
             /\ UNCHANGED <<fileExists, readme>>
             /\ pc' = failed

\* if (await tryGitRestore('HEAD')) return;
RestoreHead(outcomes) ==
    /\ pc = "tryHead"
    /\ tryGitRestore(<<"HEAD">>, "query", "detect", outcomes)
    /\ UNCHANGED <<exitCode, report, env, cfg, now, exists0, readme0, ref, branchFromEnv,
                   pending, todo, seen, node, hourBuckets, weekdayCounts, totalCommits,
                   mostDay, finalBlock, md, runs, prev>>

\* RemoteRefs with a fault: origin/master is tried before origin/main
RemoteRefsMasterFirst(branch) ==
    (IF Falsy(branch) THEN <<>> ELSE <<<<"origin", branch>>>>)
        \o <<<<"origin", "master">>, <<"origin", "main">>>>

\* the refs tried after HEAD: origin/<branchFromEnv> if there is one, origin/main,
\* origin/master
RemoteRefs(branch) ==
    (IF Falsy(branch) THEN <<>> ELSE <<<<"origin", branch>>>>)
        \o <<<<"origin", "main">>, <<"origin", "master">>>>

\* const branchFromEnv = (() => { ... })()
DetectBranch(refValues) ==
    /\ pc = "detect"
    /\ \E a, b, c \in refValues :
          LET r == RefOr(RefOr(a, b), c)
              branch == IF RefFalsy(r) THEN Undefined ELSE r[Len(r)]
          IN  /\ ref' = r
              /\ branchFromEnv' = branch
              /\ pending' = RemoteRefs(branch)
    /\ pc' = "tryRemote"
    /\ UNCHANGED <<exitCode, report, env, cfg, now, fileExists, readme, exists0, readme0,
                   io, todo, seen, node, hourBuckets, weekdayCounts, totalCommits,
                   mostDay, finalBlock, md, runs, prev>>

\* if (await tryGitRestore('origin/...')) return;  for the next remote ref
RestoreRemote(outcomes) ==
    /\ pc = "tryRemote"
    /\ Len(pending) > 0
    /\ tryGitRestore(Head(pending), "query",
                     IF Len(pending) = 1 THEN "placeholder" ELSE "tryRemote",
                     outcomes)
    /\ pending' = Tail(pending)
    /\ UNCHANGED <<exitCode, report, env, cfg, now, exists0, readme0, ref, branchFromEnv,
                   todo, seen, node, hourBuckets, weekdayCounts, totalCommits,
                   mostDay, finalBlock, md, runs, prev>>

\* await fs.writeFile(readmePath, placeholder, 'utf-8'), the last step of
\* ensureReadmeExists; an error of the write is not caught there
WritePlaceholder ==
    /\ pc = "placeholder"
    /\ \E written \in BOOLEAN :
          /\ io' = Append(io, WriteOp("placeholder", written, Placeholder))
          /\ IF written
             THEN /\ fileExists' = TRUE
                  /\ readme' = Placeholder
                  /\ pc' = "query"
                  /\ UNCHANGED <<exitCode, report>>
             ELSE Fatal /\ UNCHANGED <<fileExists, readme>>
    /\ UNCHANGED <<env, cfg, now, exists0, readme0, ref, branchFromEnv, pending, todo,
                   seen, node, hourBuckets, weekdayCounts, totalCommits, mostDay,
                   finalBlock, md, runs, prev>>

\* queryCommits: one POST to the GraphQL API; a response that is not ok throws
QueryCommits ==
    /\ pc = "query"
    /\ \E status \in Statuses :
          /\ io' = Append(io, FetchOp("github", status))
          /\ IF Ok(status)
             THEN /\ pc' = "loop"
                  /\ todo' \in 0..MaxNodes
                  /\ UNCHANGED <<exitCode, report>>
             ELSE Fatal /\ todo' = todo
    /\ UNCHANGED <<env, cfg, now, fileExists, readme, exists0, readme0, ref, branchFromEnv,
                   pending, seen, node, hourBuckets, weekdayCounts, totalCommits,
                   mostDay, finalBlock, md, runs, prev>>

\* One iteration of: for (const r of repos) for (const node of r.contributions.nodes)
Accumulate(nodes) ==
    /\ pc = "loop"
    /\ todo > 0
    /\ \E n \in nodes :
          LET cnt == CountOf(n)
              jst == toJST(n.occurredAt)
              hour == getUTCHours(jst)
              dayIndex == getUTCDay(jst)
              bucket == Bucket(hour)
              name == weekdayName(dayIndex)
          IN  /\ node' = [hour |-> hour, dayIndex |-> dayIndex, cnt |-> cnt,
                          bucket |-> bucket, hasCount |-> n.hasCount,
                          commitCount |-> n.commitCount]
              /\ hourBuckets' = [hourBuckets EXCEPT ![bucket] = @ + cnt]
              /\ weekdayCounts' = [weekdayCounts EXCEPT ![name] = @ + cnt]
              /\ totalCommits' = totalCommits + cnt
    /\ todo' = todo - 1
    /\ seen' = seen + 1
    /\ UNCHANGED <<pc, exitCode, report, env, cfg, now, fileExists, readme, exists0,
                   readme0, ref, branchFromEnv, pending, io, mostDay, finalBlock, md,
                   runs, prev>>

\* After the loop: hourLines, wkLines, the most productive day, then fetchWaka is
\* called
Summarize ==
    /\ pc = "loop"
    /\ todo = 0
    /\ IF LinesThrow
       THEN Fatal /\ mostDay' = mostDay
       ELSE /\ mostDay' = MostProductiveDay(weekdayCounts)
            /\ pc' = "waka"
            /\ UNCHANGED <<exitCode, report>>
    /\ UNCHANGED <<env, cfg, now, fileExists, readme, exists0, readme0, ref, branchFromEnv,
                   pending, io, todo, seen, node, hourBuckets, weekdayCounts,
                   totalCommits, finalBlock, md, runs, prev>>

\* fetchWaka: one GET; a response that is not ok throws.  Then the language and
\* editor lines and finalBlock, and fs.readFile is called
FetchWaka(responses) ==
    /\ pc = "waka"
    /\ \E status \in Statuses, waka \in responses :
          /\ io' = Append(io, FetchOp("wakatime", status))
          /\ IF Ok(status)
             THEN /\ finalBlock' = RenderBlock(waka)
                  /\ pc' = "read"
                  /\ UNCHANGED <<exitCode, report>>
             ELSE /\ waka = NoUsage
                  /\ Fatal
                  /\ finalBlock' = finalBlock
    /\ UNCHANGED <<env, cfg, now, fileExists, readme, exists0, readme0, ref, branchFromEnv,
                   pending, todo, seen, node, hourBuckets, weekdayCounts, totalCommits,
                   mostDay, md, runs, prev>>

\* const md = await fs.readFile(...); const replaced = md.replace(...);
\* if (replaced !== md) { await fs.writeFile(...) } else { ... }; main returns and the
\* process ends with status 0
Splice ==
    /\ pc = "read"
    /\ md' = readme
    /\ LET replaced == Replace(readme, <<START, "\n">> \o finalBlock \o <<"\n", END>>)
       IN  IF NeedsWrite(replaced, readme)
           THEN \E written \in BOOLEAN :
                   /\ io' = io \o <<ReadOp(readme), WriteOp("update", written, replaced)>>
                   /\ IF written
                      THEN /\ readme' = replaced
                           /\ pc' = "exit"
                           /\ exitCode' = 0
                           /\ report' = "README updated"
                      ELSE Fatal /\ readme' = readme
           ELSE /\ io' = Append(io, ReadOp(readme))
                /\ readme' = readme
                /\ pc' = "exit"
                /\ exitCode' = 0
                /\ report' = "No changes"
    /\ UNCHANGED <<env, cfg, now, fileExists, exists0, readme0, ref, branchFromEnv,
                   pending, todo, seen, node, hourBuckets, weekdayCounts, totalCommits,
                   mostDay, finalBlock, runs, prev>>

\* The job is started again and, the upstream data and the timestamp being what
\* they were, reaches fs.readFile with the same finalBlock
Again ==
    /\ pc = "exit"
    /\ exitCode = 0
    /\ runs < MaxRuns
    /\ runs' = runs + 1
    /\ prev' = readme
    /\ pc' = "read"
    /\ exitCode' = -1
    /\ report' = ""
    /\ io' = io \o <<AccessOp(TRUE), FetchOp("github", 200), FetchOp("wakatime", 200)>>
    /\ UNCHANGED <<env, cfg, now, fileExists, readme, exists0, readme0, ref, branchFromEnv,
                   pending, todo, seen, node, hourBuckets, weekdayCounts, totalCommits,
                   mostDay, finalBlock, md>>

----------------------------------------------------------------------------
(* The whole run, from every environment *)

RunRestoreHead == RestoreHead(RunGitOutcomes)
RunDetectBranch == DetectBranch(RunRefValues)
RunRestoreRemote == RestoreRemote(RunGitOutcomes)
RunAccumulate == Accumulate(RunNodes)
RunFetchWaka == FetchWaka(RunWaka)

Next ==
    \/ CheckEnv
    \/ Access
    \/ RunRestoreHead
    \/ RunDetectBranch
    \/ RunRestoreRemote
    \/ WritePlaceholder
    \/ QueryCommits
    \/ RunAccumulate
    \/ Summarize
    \/ RunFetchWaka
    \/ Splice

Spec == Init /\ [][Next]_vars

----------------------------------------------------------------------------
(* ensureReadmeExists, with everything git show can answer *)

InitRestore ==
    \/ Boot(GoodEnv, FALSE, <<>>)
    \/ \E d \in RunDocs : Boot(GoodEnv, TRUE, d)

AnyRestoreHead == RestoreHead(GitOutcomes)
AnyDetectBranch == DetectBranch(RefValues)
AnyRestoreRemote == RestoreRemote(GitOutcomes)

NextRestore ==
    \/ CheckEnv
    \/ Access
    \/ AnyRestoreHead
    \/ AnyDetectBranch
    \/ AnyRestoreRemote
    \/ WritePlaceholder
    \/ QueryCommits

SpecRestore == InitRestore /\ [][NextRestore]_vars

----------------------------------------------------------------------------
(* The aggregation, with every contribution node *)

\* The state of a run that found README.md with the text d, has issued the
\* operations of log and found no commit so far
Running(at, d, log, day) ==
    /\ pc = at
    /\ exitCode = -1
    /\ report = ""
    /\ env = GoodEnv
    /\ cfg = [GH_TOKEN |-> "ghp_token", WAKATIME_API_KEY |-> "waka_key",
              GH_USERNAME |-> "alice"]
    /\ now \in Nows
    /\ fileExists = TRUE
    /\ readme = d
    /\ exists0 = TRUE
    /\ readme0 = d
    /\ ref = NoRef
    /\ branchFromEnv = Undefined
    /\ pending = <<>>
    /\ io = log
    /\ todo = 0
    /\ seen = 0
    /\ node = NoNode
    /\ hourBuckets = ZeroHours
    /\ weekdayCounts = ZeroDays
    /\ totalCommits = 0
    /\ mostDay = day
    /\ finalBlock = <<>>
    /\ md = <<>>
    /\ runs = 1
    /\ prev = d

\* ... and is about to call queryCommits
InitAgg == Running("query", <<START, "old", END>>, <<AccessOp(TRUE)>>, Undefined)

AnyAccumulate == Accumulate(AllNodes)

NextAgg ==
    \/ QueryCommits
    \/ AnyAccumulate
    \/ Summarize

SpecAgg == InitAgg /\ [][NextAgg]_vars

----------------------------------------------------------------------------
(* The splice, with every document and every language name *)

\* A run that found README.md, was answered by GitHub that there is no commit, and
\* is about to call fetchWaka
InitSplice ==
    \E d \in Docs :
        Running("waka", d, <<AccessOp(TRUE), FetchOp("github", 200)>>,
                MostProductiveDay(ZeroDays))

AnyFetchWaka == FetchWaka(AllWaka)

NextSplice ==
    \/ AnyFetchWaka
    \/ Splice
    \/ Again

SpecSplice == InitSplice /\ [][NextSplice]_vars

----------------------------------------------------------------------------
(* Properties *)

Last(q) == q[Len(q)]
IsPrefix(a, b) == Len(a) <= Len(b) /\ SubSeq(b, 1, Len(a)) = a
Unset(v) == v \in {Undefined, ""}
Success(status) == status \in 200..299

IndicesOf(kind) == {k \in 1..Len(io) : io[k].op = kind}
FailedFetches == {k \in IndicesOf("fetch") : ~Success(io[k].status)}
GoodFetches(api) == {k \in IndicesOf("fetch") : io[k].arg = <<api>> /\ Success(io[k].status)}
UpdateWrites == {k \in IndicesOf("write") : io[k].arg = <<"update">>}

\* The first region of a text: the first start marker that has an end marker after
\* it, and the first end marker after that start marker
RegionStart(text) ==
    Min({i \in 1..Len(text) :
            text[i] = START /\ \E j \in 1..Len(text) : j > i /\ text[j] = END})
RegionEnd(text) ==
    Min({j \in 1..Len(text) : j > RegionStart(text) /\ text[j] = END})

\* C1 (as claimed): a successful run on a document that has a region leaves the
\* text before the first start marker and the text after the end marker that
\* follows it as they were, and puts between them the two markers around exactly
\* the block the run rendered, each on a line of its own.
C1_SpliceInsertsTheBlock ==
    (pc = "exit" /\ exitCode = 0 /\ HasRegion(md)) =>
        readme = SubSeq(md, 1, RegionStart(md) - 1)
                    \o <<START, "\n">> \o finalBlock \o <<"\n", END>>
                    \o SubSeq(md, RegionEnd(md) + 1, Len(md))

\* C2: once GitHub or WakaTime has answered with a status that is not a success
\* the process has ended with a status that is not 0, the failed request was the
\* last operation of the run (no retry, no read, no write), neither API was called
\* twice and README.md was never updated.
C2_UpstreamFailureIsFatal ==
    FailedFetches # {} =>
        /\ pc = "exit"
        /\ exitCode # 0
        /\ Len(io) \in FailedFetches
        /\ Cardinality(FailedFetches) = 1
        /\ \A api \in {"github", "wakatime"} :
              Cardinality({k \in IndicesOf("fetch") : io[k].arg = <<api>>}) <= 1
        /\ UpdateWrites = {}
        /\ report # "README updated"

C2_Witness ==
    /\ pc = "exit"
    /\ exitCode = 1
    /\ GoodFetches("github") # {}
    /\ \E k \in FailedFetches : io[k].arg = <<"wakatime">> /\ io[k].status = 500
    /\ HasRegion(readme)

\* C3: when GH_TOKEN, WAKATIME_API_KEY, or each of GH_USERNAME, GITHUB_ACTOR and USER
\* is unset or empty, the process, once it has run at all, has ended with status 1
\* and has issued no operation: no network call, no access to README.md, no git.
CredentialMissing ==
    \/ Unset(env.GH_TOKEN)
    \/ Unset(env.WAKATIME_API_KEY)
    \/ (Unset(env.GH_USERNAME) /\ Unset(env.GITHUB_ACTOR) /\ Unset(env.USER))

C3_FailFastOnMissingCredential ==
    (pc # "boot" /\ CredentialMissing) =>
        /\ pc = "exit"
        /\ exitCode = 1
        /\ io = <<>>
        /\ readme = readme0
        /\ fileExists = exists0

C3_Witness ==
    /\ pc = "exit"
    /\ exitCode = 1
    /\ io = <<>>
    /\ env.GH_TOKEN = "ghp_token"
    /\ env.WAKATIME_API_KEY = "waka_key"
    /\ env.GH_USERNAME = ""
    /\ env.GITHUB_ACTOR = Undefined
    /\ env.USER = ""
    /\ report = "Missing GH_USERNAME env"

\* The refs git show was asked for, in order
Tried == [k \in 1..Len(OpsOf("git")) |-> OpsOf("git")[k].arg]

\* HEAD, origin/<branch> when there is a branch, origin/main, origin/master
SourcesInOrder ==
    <<<<"HEAD">>>>
        \o (IF Unset(branchFromEnv) THEN <<>> ELSE <<<<"origin", branchFromEnv>>>>)
        \o <<<<"origin", "main">>, <<"origin", "master">>>>

Yielded(k) == io[k].op = "git" /\ io[k].ok /\ io[k].text # <<>>
InEnsure == pc \in {"access", "tryHead", "detect", "tryRemote", "placeholder"}

\* What C4 says and the code does, whether a write can fail or not
RecoveryFrame ==
    \* the sources are tried in the fixed order
    /\ IsPrefix(Tried, SourcesInOrder)
    \* origin/<branch> is a source only when a variable of the environment names it
    /\ ~Unset(branchFromEnv) => (~RefFalsy(ref) /\ branchFromEnv = Last(ref))
    \* what a source yielded is what is written
    /\ \A k \in 1..Len(io) :
          Yielded(k) =>
              /\ k < Len(io)
              /\ io[k + 1].op = "write"
              /\ io[k + 1].arg = <<"restore">>
              /\ io[k + 1].text = io[k].text
    /\ \A k \in IndicesOf("write") :
          io[k].arg = <<"restore">> => (k > 1 /\ Yielded(k - 1))
    \* the placeholder has both markers and is written after every source was tried
    /\ \A k \in IndicesOf("write") :
          io[k].arg = <<"placeholder">> =>
              /\ \A l \in IndicesOf("git") : l < k
              /\ Tried = SourcesInOrder
              /\ \E i, j \in 1..Len(io[k].text) :
                    i < j /\ io[k].text[i] = START /\ io[k].text[j] = END
    \* a document that is there is left alone
    /\ exists0 => (Tried = <<>> /\ IndicesOf("write") = {} /\ readme = readme0)
    \* the function returns with the document in place, and only a write of the
    \* placeholder that fails ends the run before
    /\ (~InEnsure /\ pc # "boot" /\ pc # "exit") => fileExists
    /\ (pc = "exit" /\ IndicesOf("fetch") = {}) =>
          (Len(io) > 0 /\ Last(io) = WriteOp("placeholder", FALSE, Placeholder))

\* C4 (as claimed): the sources are tried in the order HEAD, origin/<branch>,
\* origin/main, origin/master; the first source that yields content ends the search
\* and its content is written as the document; the placeholder is written only when
\* every source failed or yielded nothing.
C4_StopsAtFirstContent ==
    /\ RecoveryFrame
    /\ \A k \in 1..Len(io) : Yielded(k) => \A l \in IndicesOf("git") : l <= k
    /\ \A k \in IndicesOf("write") :
          io[k].arg = <<"placeholder">> => \A l \in 1..Len(io) : ~Yielded(l)
    /\ \A k \in 1..Len(io) : (Yielded(k) /\ ~InEnsure /\ pc # "exit") => readme = io[k].text

\* C4 (amended): the same, where the first source that ends the search is the first
\* one that yields content and whose content is written; a source whose content
\* cannot be written counts as a failed one.
Restored(k) == Yielded(k) /\ k < Len(io) /\ io[k + 1].ok

C4_StopsAtFirstRestoredContent ==
    /\ RecoveryFrame
    /\ \A k \in 1..Len(io) : Restored(k) => \A l \in IndicesOf("git") : l <= k
    /\ \A k \in IndicesOf("write") :
          io[k].arg = <<"placeholder">> => \A l \in 1..Len(io) : ~Restored(l)
    /\ \A k \in 1..Len(io) : (Restored(k) /\ ~InEnsure /\ pc # "exit") => readme = io[k].text
    /\ \A k \in 1..Len(io) : (Restored(k) /\ pc # "exit") => ~InEnsure

C4_Witness ==
    /\ pc = "query"
    /\ ~exists0
    /\ Tried = <<<<"HEAD">>, <<"origin", "dev">>, <<"origin", "main">>>>
    /\ ~Yielded(2)
    /\ Yielded(3)
    /\ ~Restored(3)
    /\ Restored(5)
    /\ readme = io[5].text

\* C5: a run that read a document without a start marker followed by an end marker
\* has ended with status 0, has reported "No changes" and has written nothing: the
\* read was its last operation and the document is what it read.
SpliceRan == pc = "exit" /\ Len(io) > 0 /\ Last(io).op \in {"read", "write"}

C5_NoRegionIsANoOp ==
    (SpliceRan /\ ~HasRegion(md)) =>
        /\ exitCode = 0
        /\ report = "No changes"
        /\ Last(io) = ReadOp(md)
        /\ readme = md

C5_Witness ==
    /\ SpliceRan
    /\ md = <<END, "x", START>>
    /\ report = "No changes"
    /\ exitCode = 0
    /\ runs = 1

\* C6 (as claimed): a second run with the same rendered block leaves the document
\* as the first run left it, writes nothing and reports "No changes".
C6_SecondSpliceChangesNothing ==
    (runs >= 2 /\ pc = "exit" /\ exitCode = 0) =>
        /\ readme = prev
        /\ report = "No changes"
        /\ Last(io).op = "read"

\* C7 (as claimed): with no commit on any weekday the most productive day is N/A.
C7_NoCommitsMeansNA ==
    (pc = "waka" /\ \A d \in WeekdaySet : weekdayCounts[d] = 0) => mostDay = "N/A"

\* C8 (as claimed): an event counts 1 when its commitCount is absent or zero and
\* never counts zero or less, so no bucket is negative and the total is at least
\* the number of events.
C8_EveryEventCountsAtLeastOne ==
    /\ seen > 0 =>
          /\ (~node.hasCount \/ node.commitCount = 0) => node.cnt = 1
          /\ node.cnt >= 1
    /\ \A b \in BucketNames : hourBuckets[b] >= 0
    /\ \A d \in WeekdaySet : weekdayCounts[d] >= 0
    /\ totalCommits >= seen

\* C9: the hour of an event is one of 0..23 and its bucket is Morning from 6 to 11,
\* Daytime from 12 to 17, Evening from 18 to 23 and Night from 0 to 5: one bucket for
\* every hour, and that bucket is the one the event is counted in.
BucketHours ==
    [b \in BucketNames |->
        CASE b = "Morning" -> 6..11
          [] b = "Daytime" -> 12..17
          [] b = "Evening" -> 18..23
          [] b = "Night" -> 0..5]

C9_HourBucketsPartitionTheDay ==
    seen > 0 =>
        /\ node.hour \in 0..23
        /\ node.bucket \in BucketNames
        /\ node.hour \in BucketHours[node.bucket]
        /\ \A b \in BucketNames : node.hour \in BucketHours[b] => b = node.bucket
        /\ seen = 1 => hourBuckets = [ZeroHours EXCEPT ![node.bucket] = node.cnt]

C9_Witness ==
    /\ seen = 1
    /\ node.hour = 12
    /\ node.bucket = "Daytime"
    /\ hourBuckets["Daytime"] = 2

\* C10: in a run that found README.md when it started there is at most one write;
\* it is the update, it comes after a successful answer of GitHub and a successful
\* answer of WakaTime, right after the read, and its text differs from the text
\* read.  A write that no fetch precedes is the restored or the placeholder
\* document, in a run that did not find README.md.  A run that found README.md and
\* failed on a fetch has left it as it was.
C10_WriteOrdering ==
    /\ exists0 =>
          /\ Cardinality(IndicesOf("write")) <= 1
          /\ \A k \in IndicesOf("write") :
                /\ io[k].arg = <<"update">>
                /\ \E i \in GoodFetches("github"), j \in GoodFetches("wakatime") :
                      i < j /\ j < k
                /\ io[k - 1].op = "read"
                /\ io[k].text # io[k - 1].text
    /\ \A k \in IndicesOf("write") :
          ({i \in IndicesOf("fetch") : i < k} = {}) =>
              (io[k].arg \in {<<"restore">>, <<"placeholder">>} /\ ~exists0)
    /\ \A k \in IndicesOf("write") :
          io[k].arg \in {<<"restore">>, <<"placeholder">>} =>
              {i \in IndicesOf("fetch") : i < k} = {}
    /\ (exists0 /\ FailedFetches # {}) => (fileExists /\ readme = readme0)

C10_Witness ==
    /\ exists0
    /\ pc = "exit"
    /\ exitCode = 0
    /\ report = "README updated"
    /\ Cardinality(IndicesOf("write")) = 1
    /\ readme # readme0

====
